---- MODULE Spec2Model ----
(***************************************************************************)
(* Model of the AI website qualifying actor (src/main.js): the per-URL     *)
(* pipeline scrapeWebsite -> qualifyWebsite (through withRetry) -> record, *)
(* driven sequentially by main().  Text values (URLs, error messages,      *)
(* verdicts, reasons) are sequences of one-character strings, so that      *)
(* startsWith / endsWith / includes / trim / parseInt are computed.        *)
(***************************************************************************)
EXTENDS Integers, Sequences, FiniteSets, TLC

VARIABLES
    input,          \* the value Actor.getInput() resolves to
    pc,             \* position of the (single) thread of control
    i,              \* main: loop index, 1-based (JS i + 1)
    results,        \* main: const results = []
    pushed,         \* the dataset: records given to dataset.pushData, in order
    outputs,        \* values written by Actor.setValue('OUTPUT', ...)
    delays,         \* inter-request waits performed: <<index of the URL waited after, ms>>
    fatal,          \* message of the exception that left main(), or NoText
    browser,        \* module-level `browser`: "null", "connected", "disconnected"
    launches,       \* number of successful chromium.launch() calls
    closes,         \* number of browser.close() calls
    disconnects,    \* number of times the browser lost its connection
    page,           \* scrapeWebsite: number of pages open (page handle not yet closed)
    rawUrl,         \* scrapeWebsite: parameter url
    normalizedUrl,  \* scrapeWebsite: let normalizedUrl
    sres,           \* scrapeWebsite: the ScrapeResult it returns
    qurl,           \* qualifyWebsite: parameter url
    qcontent,       \* qualifyWebsite: scrapedContent.length
    qres,           \* qualifyWebsite: how it ended, [status, value / message]
    maxRetries,     \* withRetry: parameter maxRetries
    baseDelay,      \* withRetry: parameter baseDelay
    attempt,        \* withRetry: loop variable attempt
    calls,          \* withRetry: number of invocations of fn so far
    last,           \* withRetry: outcome of the latest invocation of fn
    waits,          \* withRetry: the delays waited so far, in order
    rres,           \* withRetry: how it ended, [status, value / message]
    invoked,        \* indexes of the URLs for which chat.completions.create was called
    launchFailed,   \* indexes of the URLs during whose scrape chromium.launch() rejected
    renormalized,   \* the normalization applied to a normalized URL
    short           \* indexes of the URLs whose scraped content was under 50 characters

vars == <<input, pc, i, results, pushed, outputs, delays, fatal, browser, launches,
          closes, disconnects, page, rawUrl, normalizedUrl, sres, qurl, qcontent, qres,
          maxRetries, baseDelay, attempt, calls, last, waits, rres, invoked,
          launchFailed, renormalized, short>>

(***************************************************************************)
(* Text literals of src/main.js.  UndefinedChoicesMessage and             *)
(* NullVerdictMessage are the TypeError messages of the JavaScript engine. *)
(* The SyntaxError message of JSON.parse depends on the text parsed: a     *)
(* garbled answer carries its own message, of which PropertyNameMessage    *)
(* is one.                                                                 *)
(***************************************************************************)
HttpPrefix ==
    <<"h", "t", "t", "p", ":", "/", "/">>
HttpsPrefix ==
    <<"h", "t", "t", "p", "s", ":", "/", "/">>
Slash ==
    <<"/">>
QUALIFY ==
    <<"Q", "U", "A", "L", "I", "F", "Y">>
DISQUALIFY ==
    <<"D", "I", "S", "Q", "U", "A", "L", "I", "F", "Y">>
InsufficientContentError ==
    <<"I", "n", "s", "u", "f", "f", "i", "c", "i", "e", "n", "t", " ", "c", "o", "n", "t", "e", "n", "t", " ", "s", "c", "r", "a", "p", "e", "d", " ", "-", " ", "p", "a", "g", "e", " ", "m", "a", "y", " ", "b", "e", " ", "e", "m", "p", "t", "y", " ", "o", "r", " ", "b", "l", "o", "c", "k", "e", "d">>
ScrapingFailedPrefix ==
    <<"S", "c", "r", "a", "p", "i", "n", "g", " ", "f", "a", "i", "l", "e", "d", ":", " ">>
InaccessibleReason ==
    <<"W", "e", "b", "s", "i", "t", "e", " ", "i", "n", "a", "c", "c", "e", "s", "s", "i", "b", "l", "e", " ", "o", "r", " ", "n", "o", " ", "p", "r", "o", "d", "u", "c", "t", " ", "d", "e", "s", "c", "r", "i", "p", "t", "i", "o", "n", " ", "f", "o", "u", "n", "d", ".">>
ScrapeErrorInfix ==
    <<" ", "E", "r", "r", "o", "r", ":", " ">>
ErrorPrefix ==
    <<"E", "r", "r", "o", "r", ":", " ">>
UnableReason ==
    <<"U", "n", "a", "b", "l", "e", " ", "t", "o", " ", "d", "e", "t", "e", "r", "m", "i", "n", "e", " ", "q", "u", "a", "l", "i", "f", "i", "c", "a", "t", "i", "o", "n", ".">>
NoResponseMessage ==
    <<"N", "o", " ", "r", "e", "s", "p", "o", "n", "s", "e", " ", "f", "r", "o", "m", " ", "A", "I">>
ParseFailedMessage ==
    <<"F", "a", "i", "l", "e", "d", " ", "t", "o", " ", "p", "a", "r", "s", "e", " ", "A", "I", " ", "r", "e", "s", "p", "o", "n", "s", "e", " ", "a", "s", " ", "J", "S", "O", "N">>
UndefinedChoicesMessage ==
    <<"C", "a", "n", "n", "o", "t", " ", "r", "e", "a", "d", " ", "p", "r", "o", "p", "e", "r", "t", "i", "e", "s", " ", "o", "f", " ", "u", "n", "d", "e", "f", "i", "n", "e", "d", " ", "(", "r", "e", "a", "d", "i", "n", "g", " ", "'", "c", "h", "o", "i", "c", "e", "s", "'", ")">>
NullVerdictMessage ==
    <<"C", "a", "n", "n", "o", "t", " ", "r", "e", "a", "d", " ", "p", "r", "o", "p", "e", "r", "t", "i", "e", "s", " ", "o", "f", " ", "n", "u", "l", "l", " ", "(", "r", "e", "a", "d", "i", "n", "g", " ", "'", "v", "e", "r", "d", "i", "c", "t", "'", ")">>
PropertyNameMessage ==
    <<"E", "x", "p", "e", "c", "t", "e", "d", " ", "p", "r", "o", "p", "e", "r", "t", "y", " ", "n", "a", "m", "e", " ", "o", "r", " ", "'", "}", "'", " ", "i", "n", " ", "J", "S", "O", "N", " ", "a", "t", " ", "p", "o", "s", "i", "t", "i", "o", "n", " ", "1">>
RateLimitMarker ==
    <<"r", "a", "t", "e", "_", "l", "i", "m", "i", "t">>
Marker429 ==
    <<"4", "2", "9">>
Marker500 ==
    <<"5", "0", "0">>
Marker503 ==
    <<"5", "0", "3">>

NoText == <<>>

(***************************************************************************)
(* String primitives used by the code                                      *)
(***************************************************************************)
\* the WhiteSpace and LineTerminator code points, which trim() and parseInt()
\* skip; a code point without an escape of its own is written by its name
WhiteSpace ==
    {" ", "\t", "\n", "\r", "\f", "\\v", "\\u00A0", "\\u1680", "\\u2000", "\\u2001",
     "\\u2002", "\\u2003", "\\u2004", "\\u2005", "\\u2006", "\\u2007", "\\u2008",
     "\\u2009", "\\u200A", "\\u2028", "\\u2029", "\\u202F", "\\u205F", "\\u3000",
     "\\uFEFF"}

IsSpace(c) == c \in WhiteSpace

RECURSIVE TrimStart(_)
TrimStart(s) ==
    IF s # <<>> /\ IsSpace(Head(s)) THEN TrimStart(Tail(s)) ELSE s

RECURSIVE TrimEnd(_)
TrimEnd(s) ==
    IF s # <<>> /\ IsSpace(s[Len(s)]) THEN TrimEnd(SubSeq(s, 1, Len(s) - 1)) ELSE s

\* String.prototype.trim
Trim(s) == TrimEnd(TrimStart(s))

\* String.prototype.startsWith / endsWith / includes
StartsWith(s, p) == Len(p) <= Len(s) /\ SubSeq(s, 1, Len(p)) = p

EndsWith(s, p) == Len(p) <= Len(s) /\ SubSeq(s, Len(s) - Len(p) + 1, Len(s)) = p

Includes(s, p) == \E k \in 0..(Len(s) - Len(p)) : SubSeq(s, k + 1, k + Len(p)) = p

(***************************************************************************)
(* scrapeWebsite, lines 81-87: URL normalization                           *)
(***************************************************************************)
\* mutant: strips every trailing slash
RECURSIVE StripAllTrailingSlashes(_)
StripAllTrailingSlashes(s) ==
    IF EndsWith(s, Slash) THEN StripAllTrailingSlashes(SubSeq(s, 1, Len(s) - 1)) ELSE s

\* if (normalizedUrl.endsWith('/')) normalizedUrl = normalizedUrl.slice(0, -1)
StripTrailingSlash(s) ==
    IF EndsWith(s, Slash) THEN SubSeq(s, 1, Len(s) - 1) ELSE s

\* mutant: the scheme is prepended without the test
EnsureSchemeAlways(s) == HttpsPrefix \o s

\* if (!startsWith('http://') && !startsWith('https://')) prepend 'https://'
EnsureScheme(s) ==
    IF ~StartsWith(s, HttpPrefix) /\ ~StartsWith(s, HttpsPrefix)
    THEN HttpsPrefix \o s
    ELSE s

NormalizeUrl(url) == EnsureScheme(StripTrailingSlash(Trim(url)))

(***************************************************************************)
(* JavaScript values of the model's JSON answer: undefined, a string, or a *)
(* number given by its decimal text (String(n)).                           *)
(***************************************************************************)
Undefined == [t |-> "undefined", s |-> NoText]

Str(s) == [t |-> "string", s |-> s]

Num(s) == [t |-> "number", s |-> s]

\* ToBoolean(v), as `v || fallback` evaluates it
Truthy(v) ==
    CASE v.t = "undefined" -> FALSE
      [] v.t = "string"    -> v.s # <<>>
      [] v.t = "number"    -> v.s \notin {<<"0">>, <<"-", "0">>, <<"N", "a", "N">>}

IsDigit(c) == c \in {"0", "1", "2", "3", "4", "5", "6", "7", "8", "9"}

DigitValue(c) ==
    CASE c = "0" -> 0 [] c = "1" -> 1 [] c = "2" -> 2 [] c = "3" -> 3 [] c = "4" -> 4
      [] c = "5" -> 5 [] c = "6" -> 6 [] c = "7" -> 7 [] c = "8" -> 8 [] c = "9" -> 9

\* the longest prefix of decimal digits of s, as a number; acc is the value so far
RECURSIVE LeadingDigits(_, _)
LeadingDigits(s, acc) ==
    IF s # <<>> /\ IsDigit(Head(s))
    THEN LeadingDigits(Tail(s), 10 * acc + DigitValue(Head(s)))
    ELSE acc

IsHexDigit(c) ==
    IsDigit(c) \/ c \in {"a", "b", "c", "d", "e", "f", "A", "B", "C", "D", "E", "F"}

HexValue(c) ==
    CASE IsDigit(c)        -> DigitValue(c)
      [] c \in {"a", "A"}  -> 10
      [] c \in {"b", "B"}  -> 11
      [] c \in {"c", "C"}  -> 12
      [] c \in {"d", "D"}  -> 13
      [] c \in {"e", "E"}  -> 14
      [] c \in {"f", "F"}  -> 15

\* the longest prefix of hexadecimal digits of s, as a number
RECURSIVE LeadingHexDigits(_, _)
LeadingHexDigits(s, acc) ==
    IF s # <<>> /\ IsHexDigit(Head(s))
    THEN LeadingHexDigits(Tail(s), 16 * acc + HexValue(Head(s)))
    ELSE acc

\* parseInt(v) with no radix: String(v), leading white space skipped, an
\* optional sign, then hexadecimal digits after a 0x or 0X prefix and decimal
\* digits otherwise; NaN without a digit
ParseInt(v) ==
    LET s0   == IF v.t = "undefined"
                THEN <<"u", "n", "d", "e", "f", "i", "n", "e", "d">>
                ELSE TrimStart(v.s)
        neg  == s0 # <<>> /\ Head(s0) = "-"
        s1   == IF s0 # <<>> /\ Head(s0) \in {"-", "+"} THEN Tail(s0) ELSE s0
        hex  == StartsWith(s1, <<"0", "x">>) \/ StartsWith(s1, <<"0", "X">>)
        s2   == IF hex THEN SubSeq(s1, 3, Len(s1)) ELSE s1
        ok   == s2 # <<>> /\ IF hex THEN IsHexDigit(Head(s2)) ELSE IsDigit(Head(s2))
        n    == IF hex THEN LeadingHexDigits(s2, 0) ELSE LeadingDigits(s2, 0)
    IN  IF ok
        THEN [nan |-> FALSE, v |-> IF neg THEN 0 - n ELSE n]
        ELSE [nan |-> TRUE, v |-> 0]

\* parseInt(result.score) || 0
ScoreOf(v) ==
    LET p == ParseInt(v)
    IN  IF p.nan \/ p.v = 0 THEN 0 ELSE p.v

(***************************************************************************)
(* Program constants                                                       *)
(***************************************************************************)
MinScrapedLength == 50

MinQualifyLength == 20

DefaultMaxRetries == 3

DefaultDelayBetweenRequests == 2000

QualifyBaseDelay == 2000

(***************************************************************************)
(* Bounds of the model                                                     *)
(***************************************************************************)
MaxUrls == 2

MaxRetriesInput == 1

MaxAttempts == 3

MaxBodyLen == 3

MaxDisconnects == 1

(***************************************************************************)
(* Values the environment supplies                                         *)
(***************************************************************************)
UrlPool ==
    << <<"a", ".", "i", "o", "/">>,
       <<" ", "b", ".", "i", "o">>,
       <<"h", "t", "t", "p", "s", ":", "/", "/", "c", ".", "i", "o">> >>

\* the first n URLs of the input list
Urls(n) == [k \in 1..n |-> UrlPool[((k - 1) % Len(UrlPool)) + 1]]

LaunchErrorMessage ==
    <<"l", "a", "u", "n", "c", "h", " ", "f", "a", "i", "l", "e", "d">>

NewPageErrorMessage ==
    <<"n", "e", "w", "P", "a", "g", "e", " ", "f", "a", "i", "l", "e", "d">>

NavigationErrorMessage ==
    <<"T", "i", "m", "e", "o", "u", "t", " ", "3", "0", "0", "0", "0", "m", "s", " ", "e", "x", "c", "e", "e", "d", "e", "d">>

TargetClosedMessage ==
    <<"T", "a", "r", "g", "e", "t", " ", "c", "l", "o", "s", "e", "d">>

PageCloseErrorMessage ==
    <<"P", "r", "o", "t", "o", "c", "o", "l", " ", "e", "r", "r", "o", "r">>

\* what page.evaluate returns, each field by its length
Page(title, meta, h1, headings, hero, body) ==
    [title |-> title, metaDescription |-> meta, h1 |-> h1, headings |-> headings,
     heroText |-> hero, bodyText |-> body]

Pages ==
    { Page(0, 0, 0, 0, 0, 0),
      Page(10, 0, 0, 0, 0, 0),
      Page(20, 0, 0, 0, 0, 27),
      Page(20, 0, 0, 0, 0, 28),
      Page(30, 100, 20, 60, 500, 2000) }

\* messages of the errors chat.completions.create rejects with
ServiceErrors ==
    { <<"r", "a", "t", "e", "_", "l", "i", "m", "i", "t", "_", "e", "x", "c", "e", "e", "d", "e", "d">>,
      <<"4", "2", "9">>,
      <<"H", "T", "T", "P", " ", "5", "0", "0">>,
      <<"5", "0", "3">>,
      <<"4", "0", "1", " ", "U", "n", "a", "u", "t", "h", "o", "r", "i", "z", "e", "d">> }

Fits == <<"f", "i", "t", "s">>

JsonObject(verdict, score, reason) ==
    [type |-> "object", verdict |-> verdict, score |-> score, reason |-> reason]

JsonNull == [type |-> "null", verdict |-> Undefined, score |-> Undefined, reason |-> Undefined]

\* completion.choices[0]?.message?.content, by the shape of the text:
\*   none    - no choice, or no / empty content
\*   json    - the text is the JSON text of obj
\*   wrapped - prose around one {...} that is the JSON text of obj
\*   garbled - has { ... } but the text from the first { to the last } is not JSON,
\*             so the second JSON.parse throws a SyntaxError with message err
\*   prose   - holds no { ... } at all
\* err is the message of the SyntaxError JSON.parse throws on a garbled text
Response(form, obj, err) == [form |-> form, obj |-> obj, err |-> err]

NoResponse == Response("none", JsonNull, NoText)

Responses ==
    { Response("json", JsonObject(Str(QUALIFY), Num(<<"8">>), Str(Fits)), NoText),
      Response("wrapped", JsonObject(Str(QUALIFY), Num(<<"8">>), Str(Fits)), NoText),
      Response("json", JsonObject(Str(<<"M", "A", "Y", "B", "E">>), Num(<<"1", "5">>), Str(Fits)), NoText),
      Response("json", JsonObject(Undefined, Str(<<"a", "b", "c">>), Undefined), NoText),
      Response("json", JsonObject(Str(DISQUALIFY), Num(<<"-", "3">>), Str(Fits)), NoText),
      Response("json", JsonObject(Str(QUALIFY), Str(<<"\r", "0", "x", "1", "0">>), Str(Fits)), NoText),
      Response("wrapped", JsonObject(Str(QUALIFY), Str(<<"7", ".", "9">>), Str(NoText)), NoText),
      Response("json", JsonNull, NoText),
      Response("garbled", JsonNull, PropertyNameMessage),
      Response("prose", JsonNull, NoText),
      NoResponse }

\* one invocation of the operation given to withRetry: it resolves or it rejects
Resolved(resp) == [ok |-> TRUE, msg |-> NoText, resp |-> resp]

Rejected(msg) == [ok |-> FALSE, msg |-> msg, resp |-> NoResponse]

NoOutcome == [ok |-> FALSE, msg |-> NoText, resp |-> NoResponse]

ServiceOutcomes == {Resolved(r) : r \in Responses} \cup {Rejected(m) : m \in ServiceErrors}

(***************************************************************************)
(* scrapeWebsite: the ScrapeResult it builds                               *)
(***************************************************************************)
NoScrape == [url |-> NoText, content |-> 0, title |-> 0, success |-> FALSE, error |-> NoText]

\* [title, metaDescription, h1, headings, heroText, bodyText].filter(Boolean).join('\n\n'),
\* by its length
ScrapedLength(c) ==
    LET lens  == <<c.title, c.metaDescription, c.h1, c.headings, c.heroText, c.bodyText>>
        kept  == SelectSeq(lens, LAMBDA n : n > 0)
        RECURSIVE Sum(_)
        Sum(q) == IF q = <<>> THEN 0 ELSE Head(q) + Sum(Tail(q))
    IN  IF kept = <<>> THEN 0 ELSE Sum(kept) + 2 * (Len(kept) - 1)

\* mutant: the extractor accepts any content the classifier would accept
TooShortToScrapeLax(len) == len < MinQualifyLength

\* if (scrapedContent.length < 50)
TooShortToScrape(len) == len < MinScrapedLength

\* the two return statements of the try block
ScrapeReturn(normUrl, c) ==
    IF TooShortToScrape(ScrapedLength(c))
    THEN [url |-> normUrl, content |-> 0, title |-> 0, success |-> FALSE,
          error |-> InsufficientContentError]
    ELSE [url |-> normUrl, content |-> ScrapedLength(c), title |-> c.title,
          success |-> TRUE, error |-> NoText]

\* the return statement of the catch block
ScrapeCatch(url, msg) ==
    [url |-> url, content |-> 0, title |-> 0, success |-> FALSE,
     error |-> ScrapingFailedPrefix \o msg]

(***************************************************************************)
(* withRetry                                                               *)
(***************************************************************************)
\* mutant: every failure is retried
IsRecoverableAlways(msg) == TRUE

\* isRateLimit || isServerError
IsRecoverable(msg) ==
    \/ Includes(msg, RateLimitMarker) \/ Includes(msg, Marker429)
    \/ Includes(msg, Marker500) \/ Includes(msg, Marker503)

\* mutant: the exponent is off by one
RetryDelayOffByOne(base, att) == base * 2 ^ att

\* baseDelay * Math.pow(2, attempt - 1)
RetryDelay(base, att) == base * 2 ^ (att - 1)

\* what withRetry hands back: a value it returned, or an error it threw
Returned(completion) == [status |-> "returned", completion |-> completion, msg |-> NoText]

Raised(msg) == [status |-> "raised", completion |-> NoOutcome, msg |-> msg]

\* falling out of the for loop: the function returns undefined
ReturnedUndefined == [status |-> "returned", completion |-> NoOutcome, msg |-> NoText]

NoRetryResult == [status |-> "none", completion |-> NoOutcome, msg |-> NoText]

(***************************************************************************)
(* qualifyWebsite                                                          *)
(***************************************************************************)
Record(url, verdict, score, reason) ==
    [url |-> url, verdict |-> verdict, score |-> score, reason |-> reason]

NoRecord == Record(NoText, NoText, 0, NoText)

\* if (!scrapedContent || scrapedContent.length < 20)
TooShortToQualify(len) == len < MinQualifyLength

ShortCircuitRecord(url) == Record(url, DISQUALIFY, 0, InaccessibleReason)

\* the record of the catch block
ErrorRecord(url, msg) == Record(url, DISQUALIFY, 0, ErrorPrefix \o msg)

Threw(msg) == [threw |-> TRUE, msg |-> msg, obj |-> JsonNull]

Parsed(obj) == [threw |-> FALSE, msg |-> NoText, obj |-> obj]

\* JSON.parse(responseText), then the /\{[\s\S]*\}/ fallback
ParseResponse(resp) ==
    CASE resp.form = "json"    -> Parsed(resp.obj)
      [] resp.form = "wrapped" -> Parsed(resp.obj)
      [] resp.form = "garbled" -> Threw(resp.err)
      [] resp.form = "prose"   -> Threw(ParseFailedMessage)

\* the object literal returned at the end of the try block
MapFields(url, obj) ==
    Record(url,
           IF Truthy(obj.verdict) THEN obj.verdict.s ELSE DISQUALIFY,
           ScoreOf(obj.score),
           IF Truthy(obj.reason) THEN obj.reason.s ELSE UnableReason)

\* the try block from the return of withRetry on: a record, or the error thrown
QualifyBody(url, r) ==
    IF r.status = "raised" THEN [threw |-> TRUE, msg |-> r.msg, record |-> NoRecord]
    ELSE IF ~r.completion.ok
         THEN [threw |-> TRUE, msg |-> UndefinedChoicesMessage, record |-> NoRecord]
    ELSE IF r.completion.resp.form = "none"
         THEN [threw |-> TRUE, msg |-> NoResponseMessage, record |-> NoRecord]
    ELSE LET p == ParseResponse(r.completion.resp)
         IN  IF p.threw THEN [threw |-> TRUE, msg |-> p.msg, record |-> NoRecord]
             ELSE IF p.obj.type = "null"
                  THEN [threw |-> TRUE, msg |-> NullVerdictMessage, record |-> NoRecord]
             ELSE [threw |-> FALSE, msg |-> NoText, record |-> MapFields(url, p.obj)]

\* how qualifyWebsite ends
QReturned(record) == [status |-> "returned", record |-> record, msg |-> NoText]

QRaised(msg) == [status |-> "raised", record |-> NoRecord, msg |-> msg]

NoQualifyResult == [status |-> "none", record |-> NoRecord, msg |-> NoText]

\* mutant: the handler covers only failures of the service call
QualifyCatchServiceOnly(url, msg) ==
    IF msg \in ServiceErrors THEN QReturned(ErrorRecord(url, msg)) ELSE QRaised(msg)

\* catch (error) { ...; return { url, verdict: 'DISQUALIFY', score: 0, reason: `Error: ...` } }
QualifyCatch(url, msg) == QReturned(ErrorRecord(url, msg))

QualifyEnd(url, r) ==
    LET b == QualifyBody(url, r)
    IN  IF b.threw THEN QualifyCatch(url, b.msg) ELSE QReturned(b.record)

(***************************************************************************)
(* main                                                                    *)
(***************************************************************************)
\* Actor.getInput(): null, or an object; urls is absent, not an array, or an array
Input(given, urlsKind, urls, key, retries, delay) ==
    [given |-> given, urlsKind |-> urlsKind, urls |-> urls, key |-> key,
     maxRetries |-> retries, delayBetweenRequests |-> delay]

\* the two validation tests that throw
UrlsValid(in) == in.given /\ in.urlsKind = "array" /\ Len(in.urls) > 0

\* mutant: the credential test is left out
KeyValidAlways(in) == TRUE

KeyValid(in) == in.key

InputValid(in) == UrlsValid(in) /\ KeyValid(in)

UrlsErrorMessage ==
    <<"I", "n", "p", "u", "t", " ", "m", "u", "s", "t", " ", "c", "o", "n", "t", "a", "i", "n", " ", "a", " ", "\"", "u", "r", "l", "s", "\"", " ", "a", "r", "r", "a", "y", " ", "w", "i", "t", "h", " ", "a", "t", " ", "l", "e", "a", "s", "t", " ", "o", "n", "e", " ", "U", "R", "L">>

KeyErrorMessage ==
    <<"I", "n", "p", "u", "t", " ", "m", "u", "s", "t", " ", "c", "o", "n", "t", "a", "i", "n", " ", "\"", "o", "p", "e", "n", "r", "o", "u", "t", "e", "r", "A", "p", "i", "K", "e", "y", "\"">>

\* maxRetries = 3 in the destructuring
MaxRetriesOf(in) == IF in.maxRetries.set THEN in.maxRetries.v ELSE DefaultMaxRetries

\* delayBetweenRequests = 2000 in the destructuring
DelayBetweenRequestsOf(in) ==
    IF in.delayBetweenRequests.set THEN in.delayBetweenRequests.v
    ELSE DefaultDelayBetweenRequests

\* mutant: the record takes the URL of the ScrapeResult
ScrapeFailRecordOfScraped(url, scraped) ==
    Record(scraped.url, DISQUALIFY, 0,
           InaccessibleReason \o ScrapeErrorInfix \o scraped.error)

\* the record main builds when scraped.success is false
ScrapeFailRecord(url, scraped) ==
    Record(url, DISQUALIFY, 0, InaccessibleReason \o ScrapeErrorInfix \o scraped.error)

\* results.filter(r => r.verdict === v).length
CountVerdict(rs, v) == Cardinality({k \in 1..Len(rs) : rs[k].verdict = v})

\* mutant: the summary lists only the qualified records
SummaryOfQualified(urls, rs) ==
    [total |-> Len(urls), qualified |-> CountVerdict(rs, QUALIFY),
     disqualified |-> CountVerdict(rs, DISQUALIFY),
     results |-> SelectSeq(rs, LAMBDA r : r.verdict = QUALIFY)]

\* the value given to Actor.setValue('OUTPUT', ...)
Summary(urls, rs) ==
    [total |-> Len(urls), qualified |-> CountVerdict(rs, QUALIFY),
     disqualified |-> CountVerdict(rs, DISQUALIFY), results |-> rs]

(***************************************************************************)
(* Initial states                                                          *)
(***************************************************************************)
RetryInputs ==
    {[set |-> FALSE, v |-> 0]} \cup {[set |-> TRUE, v |-> n] : n \in 0..MaxRetriesInput}

Unset == [set |-> FALSE, v |-> 0]

\* delayBetweenRequests of the input: absent, or a number of milliseconds
DelayInputs == {Unset, [set |-> TRUE, v |-> 500]}

\* the two optional fields, of which an input of the model sets at most one
Options == {<<r, Unset>> : r \in RetryInputs} \cup {<<Unset, d>> : d \in DelayInputs}

Inputs ==
    {Input(TRUE, "array", Urls(n), key, o[1], o[2]) :
        n \in 0..MaxUrls, key \in BOOLEAN, o \in Options}
    \cup {Input(FALSE, "undefined", <<>>, FALSE, Unset, Unset),
          Input(TRUE, "undefined", <<>>, TRUE, Unset, Unset),
          Input(TRUE, "string", <<>>, TRUE, Unset, Unset)}

NoInput == Input(FALSE, "undefined", <<>>, FALSE, Unset, Unset)

\* everything but the entry point's own variables
InitRest ==
    /\ i = 0
    /\ results = <<>>
    /\ pushed = <<>>
    /\ outputs = <<>>
    /\ delays = <<>>
    /\ fatal = NoText
    /\ browser = "null"
    /\ launches = 0
    /\ closes = 0
    /\ disconnects = 0
    /\ page = 0
    /\ sres = NoScrape
    /\ qres = NoQualifyResult
    /\ calls = 0
    /\ last = NoOutcome
    /\ waits = <<>>
    /\ rres = NoRetryResult
    /\ invoked = {}
    /\ launchFailed = {}
    /\ renormalized = NoText
    /\ short = {}

\* Actor.main(main): the run starts with the input the platform holds
Init ==
    /\ input \in Inputs
    /\ pc = "start"
    /\ rawUrl = NoText
    /\ normalizedUrl = NoText
    /\ qurl = NoText
    /\ qcontent = 0
    /\ maxRetries = 0
    /\ baseDelay = 0
    /\ attempt = 0
    /\ InitRest

(***************************************************************************)
(* main, lines 279-312: input validation                                   *)
(***************************************************************************)
Validate ==
    /\ pc = "start"
    /\ IF ~UrlsValid(input)
       THEN /\ pc' = "fatal"
            /\ fatal' = UrlsErrorMessage
            /\ UNCHANGED i
       ELSE IF ~KeyValid(input)
       THEN /\ pc' = "fatal"
            /\ fatal' = KeyErrorMessage
            /\ UNCHANGED i
       ELSE /\ pc' = "loopHead"
            /\ i' = 1
            /\ UNCHANGED fatal
    /\ UNCHANGED <<renormalized, launchFailed, input, results, pushed, outputs, delays, browser, launches, closes,
                   disconnects, page, rawUrl, normalizedUrl, sres, qurl, qcontent, qres,
                   maxRetries, baseDelay, attempt, calls, last, waits, rres, invoked,
                   short>>

(***************************************************************************)
(* scrapeWebsite, lines 80-186                                             *)
(***************************************************************************)
\* main line 321 calls scrapeWebsite(url); lines 81-89 run
ScrapeStart ==
    /\ pc = "loopHead"
    /\ i <= Len(input.urls)
    /\ rawUrl' = input.urls[i]
    /\ normalizedUrl' = NormalizeUrl(input.urls[i])
    /\ sres' = NoScrape
    /\ pc' = "sOpen"
    /\ UNCHANGED <<renormalized, launchFailed, input, i, results, pushed, outputs, delays, fatal, browser, launches,
                   closes, disconnects, page, qurl, qcontent, qres, maxRetries, baseDelay,
                   attempt, calls, last, waits, rres, invoked, short>>

\* mutant: getBrowser() is called outside the try block, so a failed launch
\* rejects out of scrapeWebsite and main
ScrapeGetBrowserOutsideTry ==
    /\ pc = "sOpen"
    /\ IF browser # "connected"
       THEN \E ok \in BOOLEAN :
              IF ok
              THEN /\ browser' = "connected"
                   /\ launches' = launches + 1
                   /\ pc' = "sPage"
                   /\ UNCHANGED <<fatal, launchFailed>>
              ELSE /\ fatal' = LaunchErrorMessage
                   /\ pc' = "fatal"
                   /\ launchFailed' = launchFailed \cup {i}
                   /\ UNCHANGED <<browser, launches>>
       ELSE /\ pc' = "sPage"
            /\ UNCHANGED <<browser, launches, fatal, launchFailed>>
    /\ UNCHANGED sres
    /\ UNCHANGED <<renormalized, input, i, results, pushed, outputs, delays, closes, disconnects,
                   page, rawUrl, normalizedUrl, qurl, qcontent, qres, maxRetries, baseDelay,
                   attempt, calls, last, waits, rres, invoked, short>>

\* await getBrowser() (lines 61-69, line 92): the browser is launched unless one
\* is held and connected; a failed launch assigns nothing and is caught at
\* line 172 with page still null, so the finally block closes nothing
ScrapeGetBrowser ==
    /\ pc = "sOpen"
    /\ IF browser # "connected"
       THEN \E ok \in BOOLEAN :
              IF ok
              THEN /\ browser' = "connected"
                   /\ launches' = launches + 1
                   /\ pc' = "sPage"
                   /\ UNCHANGED <<sres, launchFailed>>
              ELSE /\ sres' = ScrapeCatch(rawUrl, LaunchErrorMessage)
                   /\ pc' = "sDone"
                   /\ launchFailed' = launchFailed \cup {i}
                   /\ UNCHANGED <<browser, launches>>
       ELSE /\ pc' = "sPage"
            /\ UNCHANGED <<browser, launches, sres, launchFailed>>
    /\ UNCHANGED fatal
    /\ UNCHANGED <<renormalized, input, i, results, pushed, outputs, delays, closes, disconnects,
                   page, rawUrl, normalizedUrl, qurl, qcontent, qres, maxRetries, baseDelay,
                   attempt, calls, last, waits, rres, invoked, short>>

\* page = await browserInstance.newPage() (line 93): a rejection is caught at
\* line 172 with page still null
ScrapeNewPage ==
    /\ pc = "sPage"
    /\ \/ /\ browser = "connected"
          /\ page' = page + 1
          /\ pc' = "sGoto"
          /\ UNCHANGED sres
       \/ /\ browser = "connected"
          /\ sres' = ScrapeCatch(rawUrl, NewPageErrorMessage)
          /\ pc' = "sDone"
          /\ UNCHANGED page
       \/ /\ browser = "disconnected"
          /\ sres' = ScrapeCatch(rawUrl, TargetClosedMessage)
          /\ pc' = "sDone"
          /\ UNCHANGED page
    /\ UNCHANGED <<renormalized, launchFailed, input, i, results, pushed, outputs, delays, fatal,
                   browser, launches, closes, disconnects, rawUrl, normalizedUrl, qurl,
                   qcontent, qres, maxRetries, baseDelay, attempt, calls, last, waits,
                   rres, invoked, short>>

\* lines 95-170 and the catch block: navigation and extraction either throw or
\* yield the page's fields; the result is held until the finally block has run
ScrapeNavigate ==
    /\ pc = "sGoto"
    /\ \/ /\ browser = "disconnected"
          /\ sres' = ScrapeCatch(rawUrl, TargetClosedMessage)
          /\ UNCHANGED short
       \/ /\ browser = "connected"
          /\ sres' = ScrapeCatch(rawUrl, NavigationErrorMessage)
          /\ UNCHANGED short
       \/ /\ browser = "connected"
          /\ \E c \in Pages :
               /\ sres' = ScrapeReturn(normalizedUrl, c)
               /\ short' = IF ScrapedLength(c) < MinScrapedLength THEN short \cup {i} ELSE short
    /\ pc' = "sClose"
    /\ UNCHANGED <<renormalized, launchFailed, input, i, results, pushed, outputs, delays, fatal, browser, launches,
                   closes, disconnects, page, rawUrl, normalizedUrl, qurl, qcontent, qres,
                   maxRetries, baseDelay, attempt, calls, last, waits, rres, invoked>>

\* finally { if (page) await page.close() }: a rejection here replaces the pending
\* return value and leaves scrapeWebsite, and so main, as an exception
ScrapeClosePage ==
    /\ pc = "sClose"
    /\ \E ok \in BOOLEAN :
         IF ok
         THEN /\ page' = page - 1
              /\ pc' = "sDone"
              /\ UNCHANGED fatal
         ELSE /\ pc' = "fatal"
              /\ fatal' = PageCloseErrorMessage
              /\ UNCHANGED page
    /\ UNCHANGED <<renormalized, launchFailed, input, i, results, pushed, outputs, delays, browser, launches, closes,
                   disconnects, rawUrl, normalizedUrl, sres, qurl, qcontent, qres,
                   maxRetries, baseDelay, attempt, calls, last, waits, rres, invoked,
                   short>>

\* the browser process dies or loses its connection while the run is under way
BrowserDisconnect ==
    /\ browser = "connected"
    /\ pc \notin {"start", "done", "fatal", "mOutput"}
    /\ disconnects < MaxDisconnects
    /\ browser' = "disconnected"
    /\ disconnects' = disconnects + 1
    /\ UNCHANGED <<renormalized, launchFailed, input, pc, i, results, pushed, outputs, delays, fatal, launches, closes,
                   page, rawUrl, normalizedUrl, sres, qurl, qcontent, qres, maxRetries,
                   baseDelay, attempt, calls, last, waits, rres, invoked, short>>

(***************************************************************************)
(* main, lines 323-344: after scrapeWebsite has returned                   *)
(***************************************************************************)
\* a failed scrape is recorded (results.push, line 331); a successful one goes
\* to qualifyWebsite(url, scraped.content, openai, icpSystemPrompt, maxRetries, log)
MainAfterScrape ==
    /\ pc = "sDone"
    /\ IF ~sres.success
       THEN /\ results' = Append(results, ScrapeFailRecord(input.urls[i], sres))
            /\ pc' = "fPush"
            /\ UNCHANGED <<qurl, qcontent, maxRetries>>
       ELSE /\ qurl' = input.urls[i]
            /\ qcontent' = sres.content
            /\ maxRetries' = MaxRetriesOf(input)
            /\ pc' = "qStart"
            /\ UNCHANGED results
    /\ UNCHANGED <<renormalized, launchFailed, input, i, pushed, outputs, delays, fatal, browser, launches, closes,
                   disconnects, page, rawUrl, normalizedUrl, sres, qres, baseDelay,
                   attempt, calls, last, waits, rres, invoked, short>>

(***************************************************************************)
(* qualifyWebsite, lines 209-276, and withRetry, lines 189-206             *)
(***************************************************************************)
\* lines 211-240: the short-content return, or the call of withRetry(fn, maxRetries, 2000, log)
QualifyStart ==
    /\ pc = "qStart"
    /\ IF TooShortToQualify(qcontent)
       THEN /\ qres' = QReturned(ShortCircuitRecord(qurl))
            /\ pc' = "qDone"
            /\ UNCHANGED <<baseDelay, attempt, calls, last, waits, rres>>
       ELSE /\ baseDelay' = QualifyBaseDelay
            /\ attempt' = 1
            /\ calls' = 0
            /\ last' = NoOutcome
            /\ waits' = <<>>
            /\ rres' = NoRetryResult
            /\ pc' = "rLoop"
            /\ UNCHANGED qres
    /\ UNCHANGED <<renormalized, launchFailed, input, i, results, pushed, outputs, delays, fatal, browser, launches,
                   closes, disconnects, page, rawUrl, normalizedUrl, sres, qurl, qcontent,
                   maxRetries, invoked, short>>

\* mutant: the catch block does not test attempt === maxRetries, so the last
\* recoverable failure is followed by a wait too
RetryInvokeNoLastAttemptTest ==
    /\ pc = "rLoop"
    /\ attempt <= maxRetries
    /\ \E o \in ServiceOutcomes :
         /\ calls' = calls + 1
         /\ last' = o
         /\ invoked' = invoked \cup {i}
         /\ IF o.ok
            THEN /\ rres' = Returned(o)
                 /\ pc' = "rDone"
                 /\ UNCHANGED waits
            ELSE IF ~IsRecoverable(o.msg)
            THEN /\ rres' = Raised(o.msg)
                 /\ pc' = "rDone"
                 /\ UNCHANGED waits
            ELSE /\ waits' = Append(waits, RetryDelay(baseDelay, attempt))
                 /\ pc' = "rWait"
                 /\ UNCHANGED rres
    /\ UNCHANGED <<renormalized, launchFailed, input, i, results, pushed, outputs, delays,
                   fatal, browser, launches, closes, disconnects, page, rawUrl,
                   normalizedUrl, sres, qurl, qcontent, qres, maxRetries, baseDelay,
                   attempt, short>>

\* one pass of the for loop: await fn(), and the catch block up to the wait
RetryInvoke ==
    /\ pc = "rLoop"
    /\ attempt <= maxRetries
    /\ \E o \in ServiceOutcomes :
         /\ calls' = calls + 1
         /\ last' = o
         /\ invoked' = invoked \cup {i}
         /\ IF o.ok
            THEN /\ rres' = Returned(o)
                 /\ pc' = "rDone"
                 /\ UNCHANGED waits
            ELSE IF attempt = maxRetries \/ ~IsRecoverable(o.msg)
            THEN /\ rres' = Raised(o.msg)
                 /\ pc' = "rDone"
                 /\ UNCHANGED waits
            ELSE /\ waits' = Append(waits, RetryDelay(baseDelay, attempt))
                 /\ pc' = "rWait"
                 /\ UNCHANGED rres
    /\ UNCHANGED <<renormalized, launchFailed, input, i, results, pushed, outputs, delays, fatal, browser, launches,
                   closes, disconnects, page, rawUrl, normalizedUrl, sres, qurl, qcontent,
                   qres, maxRetries, baseDelay, attempt, short>>

\* the timer of line 203 fires; attempt++
RetryWait ==
    /\ pc = "rWait"
    /\ attempt' = attempt + 1
    /\ last' = NoOutcome
    /\ pc' = "rLoop"
    /\ UNCHANGED <<renormalized, launchFailed, input, i, results, pushed, outputs, delays, fatal, browser, launches,
                   closes, disconnects, page, rawUrl, normalizedUrl, sres, qurl, qcontent,
                   qres, maxRetries, baseDelay, calls, waits, rres, invoked, short>>

\* attempt <= maxRetries is false: the loop ends and the function returns undefined
RetryExit ==
    /\ pc = "rLoop"
    /\ attempt > maxRetries
    /\ rres' = ReturnedUndefined
    /\ pc' = "rDone"
    /\ UNCHANGED <<renormalized, launchFailed, input, i, results, pushed, outputs, delays, fatal, browser, launches,
                   closes, disconnects, page, rawUrl, normalizedUrl, sres, qurl, qcontent,
                   qres, maxRetries, baseDelay, attempt, calls, last, waits, invoked,
                   short>>

\* lines 242-275: the rest of the try block, and the catch block
QualifyFinish ==
    /\ pc = "rDone"
    /\ qres' = QualifyEnd(qurl, rres)
    /\ pc' = "qDone"
    /\ UNCHANGED <<renormalized, launchFailed, input, i, results, pushed, outputs, delays, fatal, browser, launches,
                   closes, disconnects, page, rawUrl, normalizedUrl, sres, qurl, qcontent,
                   maxRetries, baseDelay, attempt, calls, last, waits, rres, invoked,
                   short>>

(***************************************************************************)
(* main, lines 331-371                                                     *)
(***************************************************************************)
\* line 349: results.push(qualification); main has no handler of its own, so
\* an exception leaving qualifyWebsite would end the run
MainAfterQualify ==
    /\ pc = "qDone"
    /\ IF qres.status = "raised"
       THEN /\ pc' = "fatal"
            /\ fatal' = qres.msg
            /\ UNCHANGED results
       ELSE /\ results' = Append(results, qres.record)
            /\ pc' = "qPush"
            /\ UNCHANGED fatal
    /\ qres' = NoQualifyResult
    /\ attempt' = 0
    /\ calls' = 0
    /\ last' = NoOutcome
    /\ waits' = <<>>
    /\ rres' = NoRetryResult
    /\ UNCHANGED <<renormalized, launchFailed, input, i, pushed, outputs, delays, browser, launches, closes,
                   disconnects, page, rawUrl, normalizedUrl, sres, qurl, qcontent,
                   maxRetries, baseDelay, invoked, short>>

\* the end of one pass of the for loop: i++
NextIteration ==
    /\ i' = i + 1
    /\ pc' = "loopHead"

\* mutant: the failed-scrape branch goes on without persisting its record
MainPushFailureSkipped ==
    /\ pc = "fPush"
    /\ IF i < Len(input.urls) THEN pc' = "fDelay" /\ UNCHANGED i ELSE NextIteration
    /\ UNCHANGED <<renormalized, launchFailed, input, results, pushed, outputs, delays, fatal, browser, launches,
                   closes, disconnects, page, rawUrl, normalizedUrl, sres, qurl, qcontent,
                   qres, maxRetries, baseDelay, attempt, calls, last, waits, rres, invoked,
                   short>>

\* await dataset.pushData(result), line 332, on the failed-scrape branch
MainPushFailure ==
    /\ pc = "fPush"
    /\ pushed' = Append(pushed, results[Len(results)])
    /\ IF i < Len(input.urls) THEN pc' = "fDelay" /\ UNCHANGED i ELSE NextIteration
    /\ UNCHANGED <<renormalized, launchFailed, input, results, outputs, delays, fatal, browser, launches, closes,
                   disconnects, page, rawUrl, normalizedUrl, sres, qurl, qcontent, qres,
                   maxRetries, baseDelay, attempt, calls, last, waits, rres, invoked,
                   short>>

\* mutant: the failed-scrape branch continues without the wait
MainDelayAfterFailureSkipped ==
    /\ pc = "fDelay"
    /\ NextIteration
    /\ UNCHANGED <<renormalized, launchFailed, input, results, pushed, outputs, delays,
                   fatal, browser, launches, closes, disconnects, page, rawUrl,
                   normalizedUrl, sres, qurl, qcontent, qres, maxRetries, baseDelay,
                   attempt, calls, last, waits, rres, invoked, short>>

\* lines 334-337: the inter-request wait of the failed-scrape branch, then continue
MainDelayAfterFailure ==
    /\ pc = "fDelay"
    /\ delays' = Append(delays, <<i, DelayBetweenRequestsOf(input)>>)
    /\ NextIteration
    /\ UNCHANGED <<renormalized, launchFailed, input, results, pushed, outputs, fatal, browser, launches, closes,
                   disconnects, page, rawUrl, normalizedUrl, sres, qurl, qcontent, qres,
                   maxRetries, baseDelay, attempt, calls, last, waits, rres, invoked,
                   short>>

\* mutant: the classification branch keeps its record in memory only
MainPushQualificationDeferred ==
    /\ pc = "qPush"
    /\ IF i < Len(input.urls) THEN pc' = "qDelay" /\ UNCHANGED i ELSE NextIteration
    /\ UNCHANGED <<renormalized, launchFailed, input, results, pushed, outputs, delays,
                   fatal, browser, launches, closes, disconnects, page, rawUrl,
                   normalizedUrl, sres, qurl, qcontent, qres, maxRetries, baseDelay,
                   attempt, calls, last, waits, rres, invoked, short>>

\* await dataset.pushData(qualification), line 350
MainPushQualification ==
    /\ pc = "qPush"
    /\ pushed' = Append(pushed, results[Len(results)])
    /\ IF i < Len(input.urls) THEN pc' = "qDelay" /\ UNCHANGED i ELSE NextIteration
    /\ UNCHANGED <<renormalized, launchFailed, input, results, outputs, delays, fatal, browser, launches, closes,
                   disconnects, page, rawUrl, normalizedUrl, sres, qurl, qcontent, qres,
                   maxRetries, baseDelay, attempt, calls, last, waits, rres, invoked,
                   short>>

\* lines 352-355: the inter-request wait of the classification branch
MainDelayAfterQualification ==
    /\ pc = "qDelay"
    /\ delays' = Append(delays, <<i, DelayBetweenRequestsOf(input)>>)
    /\ NextIteration
    /\ UNCHANGED <<renormalized, launchFailed, input, results, pushed, outputs, fatal, browser, launches, closes,
                   disconnects, page, rawUrl, normalizedUrl, sres, qurl, qcontent, qres,
                   maxRetries, baseDelay, attempt, calls, last, waits, rres, invoked,
                   short>>

\* lines 358-363: the loop is over; the counts are taken and closeBrowser() runs
MainCloseBrowser ==
    /\ pc = "loopHead"
    /\ i > Len(input.urls)
    /\ IF browser # "null"
       THEN browser' = "null" /\ closes' = closes + 1
       ELSE UNCHANGED <<browser, closes>>
    /\ pc' = "mOutput"
    /\ UNCHANGED <<renormalized, launchFailed, input, i, results, pushed, outputs, delays, fatal, launches,
                   disconnects, page, rawUrl, normalizedUrl, sres, qurl, qcontent, qres,
                   maxRetries, baseDelay, attempt, calls, last, waits, rres, invoked,
                   short>>

\* lines 366-371: Actor.setValue('OUTPUT', {total, qualified, disqualified, results})
MainOutput ==
    /\ pc = "mOutput"
    /\ outputs' = Append(outputs, Summary(input.urls, results))
    /\ pc' = "done"
    /\ UNCHANGED <<renormalized, launchFailed, input, i, results, pushed, delays, fatal, browser, launches, closes,
                   disconnects, page, rawUrl, normalizedUrl, sres, qurl, qcontent, qres,
                   maxRetries, baseDelay, attempt, calls, last, waits, rres, invoked,
                   short>>

Next ==
    \/ Validate
    \/ ScrapeStart
    \/ ScrapeGetBrowser
    \/ ScrapeNewPage
    \/ ScrapeNavigate
    \/ ScrapeClosePage
    \/ BrowserDisconnect
    \/ MainAfterScrape
    \/ QualifyStart
    \/ RetryInvoke
    \/ RetryWait
    \/ RetryExit
    \/ QualifyFinish
    \/ MainAfterQualify
    \/ MainPushFailure
    \/ MainDelayAfterFailure
    \/ MainPushQualification
    \/ MainDelayAfterQualification
    \/ MainCloseBrowser
    \/ MainOutput

Spec == Init /\ [][Next]_vars

(***************************************************************************)
(* withRetry on its own: called with every maxRetries and base delay, on   *)
(* an operation that resolves or rejects as the service may                *)
(***************************************************************************)
BaseDelays == {QualifyBaseDelay, 500}

InitRetry ==
    /\ input = NoInput
    /\ pc = "rLoop"
    /\ rawUrl = NoText
    /\ normalizedUrl = NoText
    /\ qurl = NoText
    /\ qcontent = 0
    /\ maxRetries \in (0 - 1)..MaxAttempts
    /\ baseDelay \in BaseDelays
    /\ attempt = 1
    /\ InitRest

NextRetry ==
    \/ RetryInvoke
    \/ RetryWait
    \/ RetryExit

RetrySpec == InitRetry /\ [][NextRetry]_vars

(***************************************************************************)
(* qualifyWebsite on its own: called with content of every length class    *)
(***************************************************************************)
ContentLengths == {0, MinQualifyLength - 1, MinQualifyLength, MinScrapedLength, 2720}

InitQualify ==
    /\ input = NoInput
    /\ pc = "qStart"
    /\ rawUrl = NoText
    /\ normalizedUrl = NoText
    /\ qurl \in {UrlPool[1], UrlPool[2]}
    /\ qcontent \in ContentLengths
    /\ maxRetries \in 0..MaxAttempts
    /\ baseDelay = 0
    /\ attempt = 0
    /\ InitRest

NextQualify ==
    \/ QualifyStart
    \/ RetryInvoke
    \/ RetryWait
    \/ RetryExit
    \/ QualifyFinish

QualifySpec == InitQualify /\ [][NextQualify]_vars

(***************************************************************************)
(* The URL normalization on its own, on every text made of a prefix and a  *)
(* body of up to MaxBodyLen characters                                     *)
(***************************************************************************)
Texts(chars, n) == UNION {[1..k -> chars] : k \in 0..n}

NormPrefixes ==
    { <<>>,
      HttpPrefix,
      HttpsPrefix,
      <<"H", "T", "T", "P", ":", "/", "/">>,
      <<" ", "h", "t", "t", "p", ":", "/", "/">>,
      <<"h", "t", "t", "p", ":", "/">> }

NormInputs == {p \o b : p \in NormPrefixes, b \in Texts({"a", "/", " ", "\r"}, MaxBodyLen)}

InitNormalize ==
    /\ input = NoInput
    /\ pc = "nCall"
    /\ rawUrl \in NormInputs
    /\ normalizedUrl = NoText
    /\ qurl = NoText
    /\ qcontent = 0
    /\ maxRetries = 0
    /\ baseDelay = 0
    /\ attempt = 0
    /\ InitRest

\* lines 81-87 applied to rawUrl
NormalizeCall ==
    /\ pc = "nCall"
    /\ normalizedUrl' = NormalizeUrl(rawUrl)
    /\ pc' = "nDone"
    /\ UNCHANGED <<renormalized, launchFailed, input, i, results, pushed, outputs, delays, fatal, browser, launches,
                   closes, disconnects, page, rawUrl, sres, qurl, qcontent, qres,
                   maxRetries, baseDelay, attempt, calls, last, waits, rres, invoked,
                   short>>

\* lines 81-87 applied to the URL they produced
NormalizeAgain ==
    /\ pc = "nDone"
    /\ renormalized' = NormalizeUrl(normalizedUrl)
    /\ pc' = "nAgain"
    /\ UNCHANGED <<launchFailed, input, i, results, pushed, outputs, delays, fatal, browser,
                   launches, closes, disconnects, page, rawUrl, normalizedUrl, sres, qurl,
                   qcontent, qres, maxRetries, baseDelay, attempt, calls, last, waits, rres,
                   invoked, short>>

NextNormalize ==
    \/ NormalizeCall
    \/ NormalizeAgain

NormalizeSpec == InitNormalize /\ [][NextNormalize]_vars

(***************************************************************************)
(* Properties                                                              *)
(***************************************************************************)
AllRecords ==
    {results[k] : k \in 1..Len(results)} \cup {pushed[k] : k \in 1..Len(pushed)}
    \cup UNION {{outputs[n].results[k] : k \in 1..Len(outputs[n].results)} :
                   n \in 1..Len(outputs)}

\* the message says rate limiting, 429, 500 or 503
IndicatesRecoverable(msg) ==
    \E marker \in {RateLimitMarker, Marker429, Marker500, Marker503} : Includes(msg, marker)

\* the waits after failed attempts 1..n: base, 2 base, 4 base, ...
Backoff(base, n) == [k \in 1..n |-> base * 2 ^ (k - 1)]

\* C1: when main() has finished, the dataset holds exactly one record per input
\* URL, and the k-th record is the one made for the k-th URL, whatever happened
\* to each URL (failed scrape, classification, service error, retries exhausted).
C1_OneRecordPerUrlInOrder ==
    pc = "done" =>
        /\ Len(pushed) = Len(input.urls)
        /\ pushed = results
        /\ \A k \in 1..Len(pushed) : pushed[k].url = input.urls[k]

C1_Witness ==
    /\ pc = "done"
    /\ Len(input.urls) = 2
    /\ Len(pushed) = 2
    /\ 1 \notin invoked
    /\ 2 \in invoked
    /\ StartsWith(pushed[1].reason, InaccessibleReason)
    /\ StartsWith(pushed[2].reason, ErrorPrefix)

\* C2: in the summary main() writes, qualified + disqualified = total, also
\* when the service answered with a verdict other than QUALIFY or DISQUALIFY.
C2_CountsSumToTotal ==
    \A n \in 1..Len(outputs) :
        outputs[n].qualified + outputs[n].disqualified = outputs[n].total

\* C3: once the input has passed validation the run is never ended by an
\* exception: whatever fails for a URL (browser launch, navigation, closing the
\* page, the service, the retries, the parse), main() goes on to write OUTPUT.
C3_ValidRunNeverAborts ==
    InputValid(input) => pc # "fatal"

\* C4: a URL whose concatenated scraped content is shorter than 50 characters
\* gets a record with verdict DISQUALIFY and score 0, and the classification
\* service is never called for it.
C4_ShortContentNeverClassified ==
    \A k \in short :
        /\ k \notin invoked
        /\ pc \notin {"qStart", "rLoop", "rWait", "rDone", "qDone", "qPush", "qDelay"} \/ i # k
        /\ k <= Len(results) => results[k].verdict = DISQUALIFY /\ results[k].score = 0
        /\ k <= Len(pushed) => pushed[k].verdict = DISQUALIFY /\ pushed[k].score = 0
        /\ pc = "done" => k <= Len(pushed)

C4_Witness ==
    /\ pc = "done"
    /\ 1 \in short
    /\ 2 \in invoked
    /\ pushed[1].verdict = DISQUALIFY
    /\ pushed[1].score = 0
    /\ Includes(pushed[1].reason, InsufficientContentError)

\* C5: qualifyWebsite always returns a record and never throws; when the service
\* call fails (retries exhausted or an error that is not retried), the answer is
\* empty, or the answer parses neither directly nor through the {...} fallback,
\* the record is {DISQUALIFY, 0, "Error: <message>"}.
C5_QualifyAlwaysReturns ==
    pc = "qDone" =>
        /\ qres.status = "returned"
        /\ qres.record.url = qurl
        /\ calls >= 1 /\ rres.status = "raised" =>
               qres.record = Record(qurl, DISQUALIFY, 0, ErrorPrefix \o last.msg)
        /\ calls >= 1 /\ rres.status = "returned" /\ last.resp.form = "none" =>
               qres.record = Record(qurl, DISQUALIFY, 0, ErrorPrefix \o NoResponseMessage)
        /\ calls >= 1 /\ rres.status = "returned" /\ last.resp.form = "prose" =>
               qres.record = Record(qurl, DISQUALIFY, 0, ErrorPrefix \o ParseFailedMessage)
        /\ calls >= 1 /\ rres.status = "returned" /\ last.resp.form = "garbled" =>
               /\ qres.record.verdict = DISQUALIFY
               /\ qres.record.score = 0
               /\ StartsWith(qres.record.reason, ErrorPrefix)

C5_Witness ==
    /\ pc = "qDone"
    /\ maxRetries = 3
    /\ calls = 3
    /\ rres.status = "raised"
    /\ IndicatesRecoverable(last.msg)
    /\ qres = QReturned(Record(qurl, DISQUALIFY, 0, ErrorPrefix \o last.msg))

\* C6: every record the run keeps, persists or lists in the summary has an
\* integer score between 0 and 10, whatever score the service returned.
C6_ScoreInRange ==
    \A r \in AllRecords : r.score \in 0..10

\* C7: withRetry on an operation that fails recoverably on attempts 1..j-1 and
\* succeeds on attempt j <= maxRetries calls it exactly j times, waits
\* baseDelay * 2^(k-1) after the k-th failure, and returns the result of attempt j.
C7_RetryBackoffUntilSuccess ==
    /\ pc = "rWait" => calls = attempt /\ waits = Backoff(baseDelay, calls)
    /\ pc \in {"rWait", "rDone"} /\ calls >= 1 /\ ~last.ok
          /\ IndicatesRecoverable(last.msg) /\ calls < maxRetries
       => pc = "rWait"
    /\ pc = "rDone" /\ calls >= 1 /\ last.ok
       => /\ rres = Returned(last)
          /\ calls = attempt
          /\ calls <= maxRetries
          /\ waits = Backoff(baseDelay, calls - 1)

C7_Witness ==
    /\ pc = "rDone"
    /\ maxRetries = 3
    /\ baseDelay = 2000
    /\ calls = 3
    /\ last.ok
    /\ waits = <<2000, 4000>>
    /\ rres = Returned(last)

\* C8: when the operation fails with an error that is not recoverable, withRetry
\* throws that error at once: no wait and no further attempt follows it, so a
\* failure of the first attempt means exactly one invocation, for maxRetries >= 1.
C8_NonRecoverableThrownAtOnce ==
    pc \in {"rWait", "rDone"} /\ calls >= 1 /\ ~last.ok /\ ~IndicatesRecoverable(last.msg)
    => /\ pc = "rDone"
       /\ rres = Raised(last.msg)
       /\ calls = attempt
       /\ Len(waits) = calls - 1

C8_Witness ==
    /\ pc = "rDone"
    /\ maxRetries = 3
    /\ calls = 1
    /\ ~last.ok
    /\ ~IndicatesRecoverable(last.msg)
    /\ waits = <<>>
    /\ rres = Raised(last.msg)

\* C9: for every maxRetries, 0 and negative values included, withRetry ends by
\* returning what a successful invocation produced or by throwing the failure of
\* its last invocation, after at least one and at most maxRetries invocations.
C9_ReturnsSuccessOrThrows ==
    pc = "rDone" =>
        /\ calls >= 1
        /\ calls <= maxRetries
        /\ rres.status = "returned" => last.ok /\ rres.completion = last
        /\ rres.status = "raised" => ~last.ok /\ rres.msg = last.msg

HasScheme(s) == StartsWith(s, HttpPrefix) \/ StartsWith(s, HttpsPrefix)

\* C10 as stated: the normalized URL starts with http:// or https:// and does
\* not end with '/'.
C10_SchemeAndNoTrailingSlash ==
    pc = "nDone" => HasScheme(normalizedUrl) /\ ~EndsWith(normalizedUrl, Slash)

\* C10 as amended: the normalized URL starts with http:// or https://, and it
\* ends with '/' exactly when the trimmed input is empty, is "/", or ends with
\* "//" (a single trailing '/' is removed, and an empty rest gets "https://").
C10_SchemeAndOneSlashStripped ==
    pc = "nDone" =>
        /\ HasScheme(normalizedUrl)
        /\ EndsWith(normalizedUrl, Slash)
           <=> \/ Trim(rawUrl) \in {NoText, Slash}
               \/ EndsWith(Trim(rawUrl), <<"/", "/">>)

C10_Witness ==
    /\ pc = "nDone"
    /\ rawUrl = <<"a", "/", "/">>
    /\ normalizedUrl = HttpsPrefix \o <<"a", "/">>
\* C11 as stated: normalizing a normalized URL gives the same URL.
C11_Idempotent ==
    pc = "nAgain" => renormalized = normalizedUrl

\* C11 as amended: normalizing a normalized URL gives the same URL exactly when
\* the trimmed input is not empty, is not "/", and ends neither with "//" nor
\* with white space followed by "/" (the cases in which the first result still
\* ends with '/' or with white space).
C11_IdempotentUnlessSlashLeft ==
    pc = "nAgain" =>
        (renormalized = normalizedUrl
         <=> LET t == Trim(rawUrl)
             IN  /\ t \notin {NoText, Slash}
                 /\ ~EndsWith(t, <<"/", "/">>)
                 /\ ~(EndsWith(t, Slash) /\ IsSpace(t[Len(t) - 1])))

C11_Witness ==
    /\ pc = "nAgain"
    /\ rawUrl = <<"a", "/", "/">>
    /\ normalizedUrl = HttpsPrefix \o <<"a", "/">>
    /\ renormalized = HttpsPrefix \o <<"a">>
\* the record of a failed extraction, but for its url
FailedExtractionRecord(rec) ==
    /\ rec.verdict = DISQUALIFY
    /\ rec.score = 0
    /\ sres.error # NoText
    /\ Includes(rec.reason, sres.error)

\* the summary of a run over one URL that was disqualified
SingleDisqualifiedSummary ==
    /\ Len(outputs) = 1
    /\ outputs[1].total = 1
    /\ outputs[1].qualified = 0
    /\ outputs[1].disqualified = 1
    /\ Len(outputs[1].results) = 1
    /\ outputs[1].results = pushed

\* C12 as stated: when the extraction of the only URL fails, the record persisted
\* and listed in the summary carries the normalized URL, DISQUALIFY, score 0 and
\* a reason holding the scrape error, and the summary is {1, 0, 1}.
C12_FailedScrapeRecordNormalizedUrl ==
    pc = "done" /\ Len(input.urls) = 1 /\ ~sres.success =>
        /\ SingleDisqualifiedSummary
        /\ FailedExtractionRecord(pushed[1])
        /\ pushed[1].url = NormalizeUrl(input.urls[1])

\* C12 as amended: the record of a URL whose extraction failed carries the input
\* URL as given (not normalized), DISQUALIFY, score 0 and a reason holding the
\* scrape error; for a run over that one URL the summary is {1, 0, 1} and lists
\* that record.
C12_FailedScrapeRecordInputUrl ==
    /\ pc \in {"fPush", "fDelay"} =>
          /\ ~sres.success
          /\ Len(results) = i
          /\ FailedExtractionRecord(results[i])
          /\ results[i].url = input.urls[i]
          /\ pc = "fDelay" => pushed[i] = results[i]
    /\ pc = "done" /\ Len(input.urls) = 1 /\ ~sres.success =>
          /\ SingleDisqualifiedSummary
          /\ FailedExtractionRecord(pushed[1])
          /\ pushed[1].url = input.urls[1]

C12_Witness ==
    /\ pc = "done"
    /\ Len(input.urls) = 1
    /\ sres = ScrapeCatch(input.urls[1], NavigationErrorMessage)
    /\ pushed[1].url = input.urls[1]
    /\ pushed[1].url # NormalizeUrl(input.urls[1])
    /\ Includes(pushed[1].reason, NavigationErrorMessage)
    /\ SingleDisqualifiedSummary
\* the input is missing, has no urls, has urls that are no array or an empty
\* array, or has no openrouterApiKey
InputRejected ==
    \/ ~input.given
    \/ input.urlsKind # "array"
    \/ Len(input.urls) = 0
    \/ ~input.key

\* C13: with an invalid input main() throws before any processing: no browser
\* launch, no page, no call of the service, no pushData, no OUTPUT.
C13_InvalidInputStopsBeforeProcessing ==
    InputRejected
    => /\ pc \in {"start", "fatal"}
       /\ pc = "fatal" => fatal \in {UrlsErrorMessage, KeyErrorMessage}
       /\ launches = 0
       /\ launchFailed = {}
       /\ browser = "null"
       /\ page = 0
       /\ calls = 0
       /\ invoked = {}
       /\ results = <<>>
       /\ pushed = <<>>
       /\ outputs = <<>>

C13_Witness ==
    /\ pc = "fatal"
    /\ Len(input.urls) = 2
    /\ ~input.key
    /\ fatal = KeyErrorMessage
    /\ pushed = <<>>
    /\ outputs = <<>>

\* C14: the summary is written exactly once per completed run (and by no run
\* that did not complete), only after the record of the last URL was pushed;
\* its results are the pushed records in their order, its total is len(urls).
C14_SummaryOnceAfterLastPush ==
    /\ Len(outputs) <= 1
    /\ pc = "done" <=> Len(outputs) = 1
    /\ outputs # <<>> =>
          /\ Len(pushed) = Len(input.urls)
          /\ outputs[1].results = pushed
          /\ outputs[1].total = Len(input.urls)

C14_Witness ==
    /\ pc = "done"
    /\ Len(outputs) = 1
    /\ Len(pushed) = 2
    /\ outputs[1].results = pushed
    /\ outputs[1].total = 2
    /\ pushed[1].verdict = DISQUALIFY
    /\ pushed[2].verdict = QUALIFY

\* C15: every page scrapeWebsite opens is closed before it returns, on every
\* path; so at most one page is open at any time, and none is open when the
\* next URL's scrape begins or when the run ends.
C15_PageAlwaysClosed ==
    /\ page \in 0..1
    /\ pc \in {"loopHead", "sOpen", "sPage", "sDone"} => page = 0
    /\ pc \in {"done", "fatal"} => page = 0

\* C16: the browser is launched on the first scrape and not before, launched
\* again only after it was found disconnected, and released after the loop:
\* when the run ends, and before the summary is written, the handle is null
\* and every launched browser that was still held has been closed.
C16_BrowserLifecycle ==
    /\ pc = "start" => launches = 0 /\ browser = "null"
    /\ launches <= 1 + disconnects
    /\ launches = 0 => browser = "null"
    /\ pc = "mOutput" \/ outputs # <<>> => browser = "null"
    /\ pc \in {"done", "fatal"} => browser = "null"
    /\ pc \in {"done", "fatal"} /\ launches > disconnects => closes = 1
\* the positions inside the processing of URL i, before its record exists
ProcessingUrl ==
    pc \in {"sOpen", "sPage", "sGoto", "sClose", "sDone", "qStart", "rLoop", "rWait", "rDone", "qDone"}

\* C17: the record of URL i is pushed before the inter-request wait and before
\* the scrape of URL i+1 begins, so an exception that ends the run while a later
\* URL is processed leaves all earlier records persisted; the pushed records are
\* always a prefix of the in-memory results.
C17_PushedBeforeNextUrl ==
    /\ Len(pushed) <= Len(results)
    /\ Len(results) <= Len(pushed) + 1
    /\ pushed = SubSeq(results, 1, Len(pushed))
    /\ ProcessingUrl => Len(pushed) = i - 1
    /\ pc \in {"fDelay", "qDelay"} => Len(pushed) = i
    /\ pc = "fatal" /\ i >= 1 => Len(pushed) = i - 1
    /\ \A k \in 1..Len(pushed) : pushed[k].url = input.urls[k]

C17_Witness ==
    /\ pc = "fatal"
    /\ i = 2
    /\ Len(pushed) = 1
    /\ pushed[1].url = input.urls[1]
    /\ pushed[1].verdict = QUALIFY
\* the inter-request delay the input configures, 2000 ms when it names none
ConfiguredDelay ==
    IF input.delayBetweenRequests.set
    THEN input.delayBetweenRequests.v
    ELSE DefaultDelayBetweenRequests

\* C18: the configured inter-request wait follows every URL but the last, on the
\* failed-scrape branch and on the classification branch: the k-th wait comes
\* after record k was pushed and before URL k+1 starts, a completed run over n
\* URLs has waited n-1 times, and nothing is waited after the last URL.
C18_WaitBetweenUrls ==
    /\ \A k \in 1..Len(delays) :
          /\ delays[k] = <<k, ConfiguredDelay>>
          /\ k < Len(input.urls)
          /\ k <= Len(pushed)
    /\ ProcessingUrl \/ pc \in {"fPush", "qPush", "fDelay", "qDelay"} => Len(delays) = i - 1
    /\ pc \in {"fDelay", "qDelay"} => i < Len(input.urls) /\ Len(pushed) = i
    /\ pc = "done" => Len(delays) = Len(input.urls) - 1

C18_Witness ==
    /\ pc = "done"
    /\ Len(input.urls) = 2
    /\ input.delayBetweenRequests = [set |-> TRUE, v |-> 500]
    /\ delays = << <<1, 500>> >>
    /\ 1 \notin invoked
    /\ 2 \in invoked

\* C19: when every attempt fails with a recoverable error, withRetry calls the
\* operation exactly maxRetries times, waits maxRetries - 1 times, and throws
\* the failure of the last attempt at once, with no wait after it.
C19_ExhaustionThrowsLastFailure ==
    /\ pc = "rDone" /\ calls >= 1 /\ ~last.ok /\ IndicatesRecoverable(last.msg)
       => /\ calls = maxRetries
          /\ waits = Backoff(baseDelay, maxRetries - 1)
          /\ rres = Raised(last.msg)
    /\ pc = "rWait"
       => /\ ~last.ok
          /\ IndicatesRecoverable(last.msg)
          /\ calls < maxRetries
          /\ Len(waits) = calls
    /\ pc = "rDone" /\ calls = maxRetries /\ calls >= 1 /\ ~last.ok
       => rres = Raised(last.msg) /\ Len(waits) = maxRetries - 1

C19_Witness ==
    /\ pc = "rDone"
    /\ maxRetries = 3
    /\ baseDelay = 2000
    /\ calls = 3
    /\ ~last.ok
    /\ IndicatesRecoverable(last.msg)
    /\ waits = <<2000, 4000>>
    /\ rres = Raised(last.msg)

\* the record main keeps for the URL at index k after its launch failed
LaunchFailureRecord(k) ==
    /\ results[k].url = input.urls[k]
    /\ results[k].verdict = DISQUALIFY
    /\ results[k].score = 0
    /\ Includes(results[k].reason, ScrapingFailedPrefix \o LaunchErrorMessage)

\* C20: a failed browser launch does not end the run: scrapeWebsite returns a
\* failed result, the URL gets a DISQUALIFY record with score 0 and is never
\* classified, the browser handle stays unset until a launch succeeds, each
\* later URL attempts the launch again, and a run in which every launch fails
\* still ends with one record per URL.
C20_LaunchFailureNotFatal ==
    /\ \A k \in launchFailed :
         /\ k \in 1..Len(input.urls)
         /\ k <= i
         /\ k \notin invoked
         /\ k \notin short
         /\ k < i => k <= Len(results)
         /\ k <= Len(results) => LaunchFailureRecord(k)
         /\ k = i => pc \in {"sDone", "fPush", "fDelay", "loopHead", "mOutput", "done"}
         /\ k = i /\ pc = "sDone"
            => /\ ~sres.success
               /\ sres.error = ScrapingFailedPrefix \o LaunchErrorMessage
               /\ page = 0
    /\ launches = 0 => browser = "null"
    /\ launches = 0 /\ ProcessingUrl /\ pc # "sOpen" => i \in launchFailed
    /\ launches = 0 /\ i >= 1 => 1..(i - 1) \subseteq launchFailed
    /\ launches = 0 /\ i >= 1 => pc # "fatal"
    /\ launches = 0 /\ pc = "done"
       => /\ launchFailed = 1..Len(input.urls)
          /\ Len(pushed) = Len(input.urls)
          /\ \A k \in 1..Len(pushed) : pushed[k] = results[k]

C20_Witness ==
    /\ pc = "done"
    /\ Len(input.urls) = 2
    /\ launchFailed = {1}
    /\ launches = 1
    /\ browser = "null"
    /\ 2 \in invoked
    /\ Len(pushed) = 2
    /\ LaunchFailureRecord(1)
    /\ pushed[2].verdict # DISQUALIFY
====
